---- MODULE Spec2Model ----
(***************************************************************************)
(* Model of the rfp-agent chat front end: the transcript reducer, the      *)
(* session coordinator (init / handleNewChat / handleSend) and the turn    *)
(* streams that feed events to the reducer.                                *)
(* Strings are TLA+ strings; the transcript is a sequence of ChatMessage   *)
(* records; a session id is a natural number, Null (0) standing for null.  *)
(***************************************************************************)
EXTENDS Integers, Sequences, FiniteSets, TLC

\* ------------------------------------------------------------------ bounds
MaxOps == 4         \* sends, new conversations and frames in one run of Spec
MaxTurnEvents == 4  \* frames decoded in one run of SpecTurn
MaxDeletes == 3     \* calls of deleteSession in one run of SpecDelete
MaxStaleOps == 5    \* sends, new conversations and frames in one run of SpecStale

\* ------------------------------------------------------- input alphabets
Null == 0
RememberedIds == {Null, 1}            \* what sessionStorage holds at mount
Prompts == {"q"}
DeltaTexts == {"a", "b"}
MessageTexts == {"m"}
ToolNames == {"build", "test"}
StatusTexts == {"tool:build", "tool:test", "thinking"}
ErrorTexts == {"boom"}
FaultTexts == {"net"}
HttpErrorTexts == {"HTTP 500: Internal Server Error"}

\* Persisted histories the session service may return from getSession: turns
\* saved after they were finalized, in turn order.
Histories ==
  { << [role |-> "user", content |-> "q", tool_activity |-> <<>>] >>,
    << [role |-> "user", content |-> "q", tool_activity |-> <<>>],
       [role |-> "assistant", content |-> "r",
        tool_activity |-> << [tool |-> "build", status |-> "done"],
                             [tool |-> "test", status |-> "done"] >>] >> }

\* The frames a server can put on a turn stream (SSEEvent).
SSEEvent ==
  {[type |-> "delta", content |-> c] : c \in DeltaTexts}
  \cup {[type |-> "message", content |-> c] : c \in MessageTexts}
  \cup {[type |-> "status", status |-> s] : s \in StatusTexts}
  \cup {[type |-> "tool_start", tool |-> t] : t \in ToolNames}
  \cup {[type |-> "tool_end", tool |-> t] : t \in ToolNames}
  \cup {[type |-> "done"]}
  \cup {[type |-> "error", message |-> m] : m \in ErrorTexts}

\* The frames the streams of Spec carry: text, a tool, and the two terminal
\* frames.
CoordEvents ==
  { [type |-> "delta", content |-> "a"],
    [type |-> "tool_start", tool |-> "build"],
    [type |-> "done"],
    [type |-> "error", message |-> "boom"] }

VARIABLES
  state,        \* useReducer state: messages, isStreaming, sessionId, isInitializing
  crashed,      \* a reducer call raised a TypeError
  storedId,     \* sessionStorage["rfp_agent_session_id"]
  abortRef,     \* abortRef.current: index of the stream whose controller it holds
  streams,      \* one record per handleSend invocation
  initPc,       \* position of the mount effect's init()
  cancelled,    \* the mount effect's cancelled flag
  newChatPc,    \* position of handleNewChat
  newChats,     \* handleNewChat invocations so far
  nextUuid,     \* next value of crypto.randomUUID()
  nextSid,      \* next session id the service hands out
  createCalls,  \* calls of createSession so far
  fetchCalls,   \* calls of getSession so far
  evCount,      \* frames decoded so far
  lastStep,     \* the actions the latest stream step dispatched, and its stream
  turnDeltas,   \* DELTA payloads dispatched since the trailing turn was begun
  script,       \* the frames the server sends on the stream of a scripted turn
  sse,          \* one call of streamSSE: position, response, buffer, events yielded
  del           \* calls of deleteSession and the sessions the service holds

\* The variables of the Chat component and its streams.
chatVars == <<state, crashed, storedId, abortRef, streams, initPc, cancelled,
              newChatPc, newChats, nextUuid, nextSid, createCalls, fetchCalls,
              evCount, lastStep, turnDeltas>>

vars == <<state, crashed, storedId, abortRef, streams, initPc, cancelled,
          newChatPc, newChats, nextUuid, nextSid, createCalls, fetchCalls,
          evCount, lastStep, turnDeltas, script, sse, del>>

\* ---------------------------------------------------------------- helpers
Last(s) == s[Len(s)]

SetLast(msgs, m) == [msgs EXCEPT ![Len(msgs)] = m]

\* action.status.startsWith("tool:")
StartsWithTool(s) == Len(s) >= 5 /\ SubSeq(s, 1, 5) = "tool:"

\* action.status.slice(5)
Slice5(s) == SubSeq(s, 6, Len(s))

\* toolActivity.map(ta => ta.status === "running" ? {...ta, status: "done"} : ta)
MarkAllDone(activity) ==
  [i \in DOMAIN activity |->
     IF activity[i].status = "running"
     THEN [activity[i] EXCEPT !.status = "done"]
     ELSE activity[i]]

\* `\n\n**Error:** ${action.message}`
ErrorNote(message) == "\n\n**Error:** " \o message

\* ---------------------------------------------------------------- reducer
SET_SESSION_ID(st, action) == [st EXCEPT !.sessionId = action.sessionId]

SET_INITIALIZING(st, action) == [st EXCEPT !.isInitializing = action.value]

LOAD_HISTORY(st, action) == [st EXCEPT !.messages = action.messages]

USER_SEND(st, action) ==
  [st EXCEPT
     !.messages = Append(st.messages,
                         [id |-> action.id, role |-> "user",
                          content |-> action.content, isStreaming |-> FALSE,
                          toolActivity |-> <<>>]),
     !.isStreaming = TRUE]

\* ASSISTANT_START that appends no turn.
ASSISTANT_START_noTurn(st, action) == st

ASSISTANT_START(st, action) ==
  [st EXCEPT
     !.messages = Append(st.messages,
                         [id |-> action.id, role |-> "assistant",
                          content |-> "", isStreaming |-> TRUE,
                          toolActivity |-> <<>>])]

\* DELTA that puts the payload into a turn of its own.
DELTA_newTurn(st, action) ==
  [st EXCEPT
     !.messages = Append(st.messages,
                         [id |-> 0, role |-> "assistant",
                          content |-> action.content, isStreaming |-> TRUE,
                          toolActivity |-> <<>>])]

\* DELTA with the operands of += swapped.
DELTA_prepend(st, action) ==
  IF st.messages = <<>> THEN st
  ELSE LET last == Last(st.messages)
       IN [st EXCEPT !.messages =
             SetLast(st.messages,
                     [last EXCEPT !.content = action.content \o last.content])]

\* On an empty transcript msgs[msgs.length - 1] is undefined: the write goes
\* to the property "-1" of the copy and the array keeps length 0.
DELTA(st, action) ==
  IF st.messages = <<>> THEN st
  ELSE LET last == Last(st.messages)
       IN [st EXCEPT !.messages =
             SetLast(st.messages,
                     [last EXCEPT !.content = last.content \o action.content])]

\* STATUS whose tool branch does not mark the running entries done.
STATUS_noMarkDone(st, action) ==
  LET last == Last(st.messages)
      tool == Slice5(action.status)
      activity == last.toolActivity
      alreadyTracked ==
        \E i \in DOMAIN activity :
           activity[i].tool = tool /\ activity[i].status = "running"
      newActivity ==
        IF StartsWithTool(action.status)
        THEN IF alreadyTracked THEN activity
             ELSE Append(activity, [tool |-> tool, status |-> "running"])
        ELSE MarkAllDone(last.toolActivity)
  IN [st EXCEPT !.messages =
        SetLast(st.messages, [last EXCEPT !.toolActivity = newActivity])]

STATUS(st, action) ==
  LET last == Last(st.messages)
      tool == Slice5(action.status)
      activity == MarkAllDone(last.toolActivity)
      alreadyTracked ==
        \E i \in DOMAIN activity :
           activity[i].tool = tool /\ activity[i].status = "running"
      newActivity ==
        IF StartsWithTool(action.status)
        THEN IF alreadyTracked THEN activity
             ELSE Append(activity, [tool |-> tool, status |-> "running"])
        ELSE MarkAllDone(last.toolActivity)
  IN [st EXCEPT !.messages =
        SetLast(st.messages, [last EXCEPT !.toolActivity = newActivity])]

\* MESSAGE with += in place of =.
MESSAGE_append(st, action) ==
  LET last == Last(st.messages)
  IN [st EXCEPT !.messages =
        SetLast(st.messages,
                [last EXCEPT !.content = last.content \o action.content,
                             !.toolActivity = MarkAllDone(last.toolActivity)])]

MESSAGE(st, action) ==
  LET last == Last(st.messages)
  IN [st EXCEPT !.messages =
        SetLast(st.messages,
                [last EXCEPT !.content = action.content,
                             !.toolActivity = MarkAllDone(last.toolActivity)])]

\* TOOL_START that puts the new entry at the head of the ledger.
TOOL_START_prepend(st, action) ==
  LET last == Last(st.messages)
  IN [st EXCEPT !.messages =
        SetLast(st.messages,
                [last EXCEPT !.toolActivity =
                   << [tool |-> action.tool, status |-> "running"] >>
                     \o last.toolActivity])]

TOOL_START(st, action) ==
  LET last == Last(st.messages)
  IN [st EXCEPT !.messages =
        SetLast(st.messages,
                [last EXCEPT !.toolActivity =
                   Append(last.toolActivity,
                          [tool |-> action.tool, status |-> "running"])])]

\* TOOL_END that leaves the ledger as it is.
TOOL_END_noop(st, action) == st

TOOL_END(st, action) ==
  LET last == Last(st.messages)
  IN [st EXCEPT !.messages =
        SetLast(st.messages,
                [last EXCEPT !.toolActivity =
                   [i \in DOMAIN last.toolActivity |->
                      IF last.toolActivity[i].tool = action.tool
                         /\ last.toolActivity[i].status = "running"
                      THEN [last.toolActivity[i] EXCEPT !.status = "done"]
                      ELSE last.toolActivity[i]]])]

\* DONE that clears only the global flag.
DONE_globalOnly(st, action) == [st EXCEPT !.isStreaming = FALSE]

\* DONE that flips the global flag instead of clearing it.
DONE_toggle(st, action) ==
  IF st.messages = <<>> THEN [st EXCEPT !.isStreaming = ~st.isStreaming]
  ELSE LET last == Last(st.messages)
       IN [st EXCEPT !.messages =
                       SetLast(st.messages, [last EXCEPT !.isStreaming = FALSE]),
                     !.isStreaming = ~st.isStreaming]

DONE(st, action) ==
  IF st.messages = <<>> THEN [st EXCEPT !.isStreaming = FALSE]
  ELSE LET last == Last(st.messages)
       IN [st EXCEPT !.messages =
                       SetLast(st.messages, [last EXCEPT !.isStreaming = FALSE]),
                     !.isStreaming = FALSE]

\* ERROR that appends the note and clears the global flag but leaves the
\* trailing turn's streaming flag as it was.
ERROR_keepTurnFlag(st, action) ==
  IF Len(st.messages) > 0 /\ Last(st.messages).role = "assistant"
  THEN LET last == Last(st.messages)
       IN [st EXCEPT !.messages =
                       SetLast(st.messages,
                               [last EXCEPT
                                  !.content = last.content \o ErrorNote(action.message)]),
                     !.isStreaming = FALSE]
  ELSE [st EXCEPT !.isStreaming = FALSE]

\* ERROR without the test of the trailing turn's role.
ERROR_anyRole(st, action) ==
  IF Len(st.messages) > 0
  THEN LET last == Last(st.messages)
       IN [st EXCEPT !.messages =
                       SetLast(st.messages,
                               [last EXCEPT
                                  !.content = last.content \o ErrorNote(action.message),
                                  !.isStreaming = FALSE]),
                     !.isStreaming = FALSE]
  ELSE [st EXCEPT !.isStreaming = FALSE]

ERROR(st, action) ==
  IF Len(st.messages) > 0 /\ Last(st.messages).role = "assistant"
  THEN LET last == Last(st.messages)
       IN [st EXCEPT !.messages =
                       SetLast(st.messages,
                               [last EXCEPT
                                  !.content = last.content \o ErrorNote(action.message),
                                  !.isStreaming = FALSE]),
                     !.isStreaming = FALSE]
  ELSE [st EXCEPT !.isStreaming = FALSE]

\* last.toolActivity is read through an undefined trailing turn: TypeError.
ReducerThrows(st, action) ==
  /\ action.type \in {"STATUS", "MESSAGE", "TOOL_START", "TOOL_END"}
  /\ st.messages = <<>>

reducer(st, action) ==
  CASE action.type = "SET_SESSION_ID" -> SET_SESSION_ID(st, action)
    [] action.type = "SET_INITIALIZING" -> SET_INITIALIZING(st, action)
    [] action.type = "LOAD_HISTORY" -> LOAD_HISTORY(st, action)
    [] action.type = "USER_SEND" -> USER_SEND(st, action)
    [] action.type = "ASSISTANT_START" -> ASSISTANT_START(st, action)
    [] action.type = "DELTA" -> DELTA(st, action)
    [] action.type = "STATUS" -> STATUS(st, action)
    [] action.type = "MESSAGE" -> MESSAGE(st, action)
    [] action.type = "TOOL_START" -> TOOL_START(st, action)
    [] action.type = "TOOL_END" -> TOOL_END(st, action)
    [] action.type = "DONE" -> DONE(st, action)
    [] action.type = "ERROR" -> ERROR(st, action)
    [] OTHER -> st

initialState ==
  [messages |-> <<>>, isStreaming |-> FALSE, sessionId |-> Null,
   isInitializing |-> TRUE]

\* handleSSEEvent: the action dispatched for a decoded frame.
handleSSEEvent(event) ==
  CASE event.type = "delta" -> [type |-> "DELTA", content |-> event.content]
    [] event.type = "status" -> [type |-> "STATUS", status |-> event.status]
    [] event.type = "message" -> [type |-> "MESSAGE", content |-> event.content]
    [] event.type = "tool_start" -> [type |-> "TOOL_START", tool |-> event.tool]
    [] event.type = "tool_end" -> [type |-> "TOOL_END", tool |-> event.tool]
    [] event.type = "done" -> [type |-> "DONE"]
    [] event.type = "error" -> [type |-> "ERROR", message |-> event.message]

\* Dispatching a list of actions in order.  A reducer call that throws takes
\* the component tree down: the state stays as it was and later dispatches
\* are ignored.
RECURSIVE Dispatch(_, _)
Dispatch(cur, actions) ==
  IF actions = <<>> \/ cur.crashed THEN cur
  ELSE IF ReducerThrows(cur.state, Head(actions))
       THEN [cur EXCEPT !.crashed = TRUE]
       ELSE Dispatch([cur EXCEPT !.state = reducer(cur.state, Head(actions))],
                     Tail(actions))

DispatchAll(actions) ==
  LET res == Dispatch([state |-> state, crashed |-> FALSE], actions)
  IN /\ state' = res.state
     /\ crashed' = res.crashed

\* No stream step has dispatched anything since the transcript was replaced
\* or a turn was begun.
NoStep == [stream |-> Null, acts |-> <<>>]

\* Record of one stream step: via[i] is "event" (a decoded frame), "close"
\* (DONE after the loop) or "catch" (ERROR in the catch block).
StepOf(actions, k, via) ==
  [stream |-> k,
   acts |-> [i \in DOMAIN actions |-> [action |-> actions[i], via |-> via[i]]]]

\* turnDeltas while only DELTA actions have reached the trailing turn.
FreshTurn == [pure |-> TRUE, payloads |-> <<>>]
Mixed == [pure |-> FALSE, payloads |-> <<>>]

RECURSIVE NoteDeltas(_, _)
NoteDeltas(td, actions) ==
  IF actions = <<>> THEN td
  ELSE IF td.pure /\ Head(actions).type = "DELTA"
       THEN NoteDeltas([td EXCEPT !.payloads = Append(@, Head(actions).content)],
                       Tail(actions))
       ELSE Mixed

\* What a stream step leaves in state, crashed, lastStep and turnDeltas.
StreamDispatch(actions, k, via) ==
  /\ DispatchAll(actions)
  /\ lastStep' = StepOf(actions, k, via)
  /\ turnDeltas' = NoteDeltas(turnDeltas, actions)

\* A stream whose abort is handled like any other rejection.
IsOpen_abortAsFault(k) == streams[k].phase \in {"connecting", "reading", "cancelled"}

IsOpen(k) == streams[k].phase \in {"connecting", "reading"}

\* ------------------------------------------------- streamSSE: decoding
\* What fetch can resolve with: res.ok, res.status, res.statusText.
OkResponse == [ok |-> TRUE, status |-> "200", statusText |-> "OK"]

Responses ==
  { OkResponse,
    [ok |-> FALSE, status |-> "500", statusText |-> "Internal Server Error"],
    [ok |-> FALSE, status |-> "404", statusText |-> "Not Found"] }

\* `HTTP ${res.status}: ${res.statusText}`
HttpErrorMessage(res) == "HTTP " \o res.status \o ": " \o res.statusText

\* JSON texts the server writes, and what JSON.parse returns for them; it
\* throws a SyntaxError for every other text of the model.
JsonDelta == "{\"type\":\"delta\",\"content\":\"a\"}"
JsonDone == "{\"type\":\"done\"}"
JsonTexts == {JsonDelta, JsonDone}

JSONparse(text) ==
  CASE text = JsonDelta -> [type |-> "delta", content |-> "a"]
    [] text = JsonDone -> [type |-> "done"]

\* Lines a server writes on the stream, each with the event it stands for
\* (none for a line that is not a frame): well-formed frames, with LF or
\* CRLF ending, and lines without the prefix, with an empty payload, with a
\* payload that is not JSON, and the blank separator line.
LineDelta ==
  [text |-> "data: " \o JsonDelta, event |-> << [type |-> "delta", content |-> "a"] >>]
LineDone ==
  [text |-> "data: " \o JsonDone, event |-> << [type |-> "done"] >>]
LineDeltaCR ==
  [text |-> "data: " \o JsonDelta \o "\r",
   event |-> << [type |-> "delta", content |-> "a"] >>]
LineDoneCR ==
  [text |-> "data: " \o JsonDone \o "\r", event |-> << [type |-> "done"] >>]
LineComment == [text |-> ": ping", event |-> <<>>]
LineEmptyPayload == [text |-> "data: ", event |-> <<>>]
LineBadJson == [text |-> "data: {oops", event |-> <<>>]
LineBlank == [text |-> "", event |-> <<>>]

MalformedLines == {LineComment, LineEmptyPayload, LineBadJson}

\* What the server writes before it closes the stream: the lines, and
\* whether the last one got its newline.
Written ==
  { [lines |-> <<>>, ended |-> FALSE],
    [lines |-> << LineDelta, LineDone >>, ended |-> TRUE],
    [lines |-> << LineDelta, LineBlank, LineDone >>, ended |-> FALSE],
    [lines |-> << LineBadJson, LineDone >>, ended |-> TRUE],
    [lines |-> << LineDelta, LineComment, LineEmptyPayload, LineBadJson,
                  LineDone >>, ended |-> TRUE],
    [lines |-> << LineDelta, LineBadJson >>, ended |-> FALSE],
    [lines |-> << LineDeltaCR, LineBlank, LineDoneCR >>, ended |-> TRUE] }

\* The characters of the lines, "\n" between them.
RECURSIVE JoinLines(_)
JoinLines(lines) ==
  IF lines = <<>> THEN ""
  ELSE IF Len(lines) = 1 THEN lines[1].text
  ELSE lines[1].text \o "\n" \o JoinLines(Tail(lines))

BodyOf(w) == JoinLines(w.lines) \o (IF w.ended THEN "\n" ELSE "")

\* Response bodies.
Bodies == {BodyOf(w) : w \in Written}

\* String.prototype.trim: white space off both ends.
IsSpace(c) == c \in {" ", "\n", "\r", "\t"}

RECURSIVE TrimStart(_)
TrimStart(s) ==
  IF s # "" /\ IsSpace(SubSeq(s, 1, 1))
  THEN TrimStart(SubSeq(s, 2, Len(s)))
  ELSE s

RECURSIVE TrimEnd(_)
TrimEnd(s) ==
  IF s # "" /\ IsSpace(SubSeq(s, Len(s), Len(s)))
  THEN TrimEnd(SubSeq(s, 1, Len(s) - 1))
  ELSE s

trim(s) == TrimEnd(TrimStart(s))

\* buffer.split("\n"): the pieces between newlines, at least one piece.
RECURSIVE split(_)
split(s) ==
  LET at == {i \in 1..Len(s) : SubSeq(s, i, i) = "\n"}
  IN IF at = {} THEN << s >>
     ELSE LET i == CHOOSE j \in at : \A l \in at : j <= l
          IN << SubSeq(s, 1, i - 1) >> \o split(SubSeq(s, i + 1, Len(s)))

\* trimmed.startsWith("data: ")
StartsWithData(s) == Len(s) >= 6 /\ SubSeq(s, 1, 6) = "data: "

\* The loop body with a catch that yields an error event.
DecodeLine_reportsBadJson(line) ==
  LET trimmed == trim(line)
      data == SubSeq(trimmed, 7, Len(trimmed))
  IN IF ~StartsWithData(trimmed) THEN <<>>
     ELSE IF data \in JsonTexts THEN << JSONparse(data) >>
     ELSE << [type |-> "error", message |-> "parse"] >>

\* The body of the for loop over lines: the events one line yields (none
\* without the prefix, none when JSON.parse throws).
DecodeLine(line) ==
  LET trimmed == trim(line)
      data == SubSeq(trimmed, 7, Len(trimmed))
  IN IF ~StartsWithData(trimmed) THEN <<>>
     ELSE IF data \in JsonTexts THEN << JSONparse(data) >>
     ELSE <<>>

RECURSIVE DecodeLines(_)
DecodeLines(lines) ==
  IF lines = <<>> THEN <<>>
  ELSE DecodeLine(Head(lines)) \o DecodeLines(Tail(lines))

\* No call of streamSSE is followed.
NoCall ==
  [pc |-> "idle", res |-> OkResponse, body |-> "", wire |-> "",
   buffer |-> "", out |-> <<>>]

\* ----------------------------------------------------- api: deleteSession
\* Sessions the service may hold, and the statuses it answers a DELETE with:
\* 200 or 204 when it removed the session, 404 when it holds no such
\* session, 403 or 500 when it refused or failed.
SessionIds == {1, 2}

DeleteAnswers(present) ==
  (IF present THEN {200, 204} ELSE {404}) \cup {403, 500}

\* res.ok
ResOk(status) == status \in 200..299

\* deleteSession that throws on every status that is not ok.
deleteSession_strict(status) ==
  IF ~ResOk(status) THEN "threw" ELSE "returned"

\* if (!res.ok && res.status !== 404) throw ...; otherwise it returns.
deleteSession(status) ==
  IF ~ResOk(status) /\ status # 404 THEN "threw" ELSE "returned"

NoDeletes == [sessions |-> {}, calls |-> <<>>]

\* ------------------------------------------------------------------- Init
\* The Chat component after its first render.
InitChat ==
  /\ state = initialState
  /\ crashed = FALSE
  /\ storedId \in RememberedIds
  /\ abortRef = Null
  /\ streams = <<>>
  /\ initPc = "start"
  /\ cancelled = FALSE
  /\ newChatPc = "idle"
  /\ newChats = 0
  /\ nextUuid = 1
  /\ nextSid = 2
  /\ createCalls = 0
  /\ fetchCalls = 0
  /\ evCount = 0
  /\ lastStep = NoStep
  /\ turnDeltas = Mixed

Init ==
  /\ InitChat
  /\ script = <<>>
  /\ sse = NoCall
  /\ del = NoDeletes

\* ------------------------------------------------- mount effect: init()
\* init() up to its first await: getStoredSessionId(), then getSession(stored)
\* or createSession().
InitStart ==
  /\ initPc = "start"
  /\ IF storedId # Null
     THEN /\ initPc' = "fetch"
          /\ fetchCalls' = fetchCalls + 1
          /\ UNCHANGED createCalls
     ELSE /\ initPc' = "create"
          /\ createCalls' = createCalls + 1
          /\ UNCHANGED fetchCalls
  /\ UNCHANGED <<state, crashed, storedId, abortRef, streams, cancelled,
                 newChatPc, newChats, nextUuid, nextSid, evCount, lastStep, turnDeltas>>
  /\ UNCHANGED <<script, sse, del>>

\* The conversion without the ledger of the persisted turn.
HistoryToMessages_noLedger(data, firstUuid) ==
  [i \in DOMAIN data |->
     [id |-> firstUuid + i - 1,
      role |-> data[i].role,
      content |-> data[i].content,
      isStreaming |-> FALSE,
      toolActivity |-> <<>>]]

\* data.messages.map(m => ({id, role, content, isStreaming: false, toolActivity}))
HistoryToMessages(data, firstUuid) ==
  [i \in DOMAIN data |->
     [id |-> firstUuid + i - 1,
      role |-> data[i].role,
      content |-> data[i].content,
      isStreaming |-> FALSE,
      toolActivity |->
        [j \in DOMAIN data[i].tool_activity |->
           [tool |-> data[i].tool_activity[j].tool,
            status |-> data[i].tool_activity[j].status]]]]

\* getSession resolved with status "active".  Only init() writes storedId
\* while it runs, so storedId is still the value read into `stored`.
InitFetchActive(data) ==
  /\ initPc = "fetch"
  /\ IF cancelled
     THEN UNCHANGED <<state, nextUuid>>
     ELSE /\ state' =
               reducer(reducer(reducer(state,
                   [type |-> "SET_SESSION_ID", sessionId |-> storedId]),
                   [type |-> "LOAD_HISTORY",
                    messages |-> HistoryToMessages(data, nextUuid)]),
                   [type |-> "SET_INITIALIZING", value |-> FALSE])
          /\ nextUuid' = nextUuid + Len(data)
  /\ initPc' = "done"
  /\ UNCHANGED <<crashed, storedId, abortRef, streams, cancelled, newChatPc,
                 newChats, nextSid, createCalls, fetchCalls, evCount, lastStep,
                 turnDeltas>>
  /\ UNCHANGED <<script, sse, del>>

\* The fallback without clearSessionId().
InitFetchOther_keepId(rejected) ==
  /\ initPc = "fetch"
  /\ IF cancelled /\ ~rejected
     THEN /\ initPc' = "done"
          /\ UNCHANGED <<storedId, createCalls>>
     ELSE /\ UNCHANGED storedId
          /\ initPc' = "create"
          /\ createCalls' = createCalls + 1
  /\ UNCHANGED <<state, crashed, abortRef, streams, cancelled, newChatPc,
                 newChats, nextUuid, nextSid, fetchCalls, evCount, lastStep, turnDeltas>>
  /\ UNCHANGED <<script, sse, del>>

\* getSession resolved with another status, or rejected.  The cancelled test
\* sits inside the try block, so a rejection skips it.
InitFetchOther(rejected) ==
  /\ initPc = "fetch"
  /\ IF cancelled /\ ~rejected
     THEN /\ initPc' = "done"
          /\ UNCHANGED <<storedId, createCalls>>
     ELSE /\ storedId' = Null
          /\ initPc' = "create"
          /\ createCalls' = createCalls + 1
  /\ UNCHANGED <<state, crashed, abortRef, streams, cancelled, newChatPc,
                 newChats, nextUuid, nextSid, fetchCalls, evCount, lastStep, turnDeltas>>
  /\ UNCHANGED <<script, sse, del>>

\* The return of createSession without storeSessionId().
InitCreateReturn_noStore(ok) ==
  /\ initPc = "create"
  /\ initPc' = "done"
  /\ IF cancelled
     THEN UNCHANGED <<state, storedId>>
     ELSE IF ok
          THEN /\ UNCHANGED storedId
               /\ state' =
                    reducer(reducer(state,
                        [type |-> "SET_SESSION_ID", sessionId |-> nextSid]),
                        [type |-> "SET_INITIALIZING", value |-> FALSE])
          ELSE /\ state' =
                    reducer(state, [type |-> "SET_INITIALIZING", value |-> FALSE])
               /\ UNCHANGED storedId
  /\ nextSid' = IF ok THEN nextSid + 1 ELSE nextSid
  /\ UNCHANGED <<crashed, abortRef, streams, cancelled, newChatPc, newChats,
                 nextUuid, createCalls, fetchCalls, evCount, lastStep, turnDeltas>>
  /\ UNCHANGED <<script, sse, del>>

\* createSession of init() resolved (ok) or rejected.
InitCreateReturn(ok) ==
  /\ initPc = "create"
  /\ initPc' = "done"
  /\ IF cancelled
     THEN UNCHANGED <<state, storedId>>
     ELSE IF ok
          THEN /\ storedId' = nextSid
               /\ state' =
                    reducer(reducer(state,
                        [type |-> "SET_SESSION_ID", sessionId |-> nextSid]),
                        [type |-> "SET_INITIALIZING", value |-> FALSE])
          ELSE /\ state' =
                    reducer(state, [type |-> "SET_INITIALIZING", value |-> FALSE])
               /\ UNCHANGED storedId
  /\ nextSid' = IF ok THEN nextSid + 1 ELSE nextSid
  /\ UNCHANGED <<crashed, abortRef, streams, cancelled, newChatPc, newChats,
                 nextUuid, createCalls, fetchCalls, evCount, lastStep, turnDeltas>>
  /\ UNCHANGED <<script, sse, del>>

\* Cleanup of the mount effect while init() is suspended at an await.
Teardown ==
  /\ initPc \in {"fetch", "create"}
  /\ ~cancelled
  /\ cancelled' = TRUE
  /\ UNCHANGED <<state, crashed, storedId, abortRef, streams, initPc,
                 newChatPc, newChats, nextUuid, nextSid, createCalls,
                 fetchCalls, evCount, lastStep, turnDeltas>>
  /\ UNCHANGED <<script, sse, del>>

\* ------------------------------------------------------------ handleSend
\* An input bar rendered while state.isInitializing is true.
InputAccepted_noInitGate ==
  /\ ~crashed
  /\ ~state.isStreaming

\* InputBar.handleSubmit calls onSend only for a non-empty trimmed input while
\* it is not disabled (state.isStreaming), and InputBar is rendered only while
\* state.isInitializing is false.
InputAccepted ==
  /\ ~crashed
  /\ ~state.isInitializing
  /\ ~state.isStreaming

\* handleSend up to the first await inside streamSSE.
handleSend(content) ==
  /\ InputAccepted
  /\ state' =
       reducer(reducer(state,
           [type |-> "USER_SEND", content |-> content, id |-> nextUuid]),
           [type |-> "ASSISTANT_START", id |-> nextUuid + 1])
  /\ nextUuid' = nextUuid + 2
  /\ streams' = Append(streams, [phase |-> "connecting", sid |-> state.sessionId,
                                  turn |-> nextUuid + 1])
  /\ abortRef' = Len(streams) + 1
  /\ lastStep' = NoStep
  /\ turnDeltas' = FreshTurn
  /\ UNCHANGED <<crashed, storedId, initPc, cancelled, newChatPc, newChats,
                 nextSid, createCalls, fetchCalls, evCount>>
  /\ UNCHANGED <<script, sse, del>>

\* ----------------------------------------------------------- handleNewChat
\* The "New chat" button is disabled while isStreaming or isInitializing.
\* abort() rejects the pending fetch/read of the stream abortRef points to
\* with an AbortError; handleSend's catch returns without dispatching.
handleNewChatStart ==
  /\ InputAccepted
  /\ newChatPc = "idle"
  /\ streams' =
       [k \in DOMAIN streams |->
          IF k = abortRef /\ IsOpen(k)
          THEN [streams[k] EXCEPT !.phase = "cancelled"]
          ELSE streams[k]]
  /\ abortRef' = Null
  /\ storedId' = Null
  /\ state' =
       reducer(reducer(state,
           [type |-> "SET_INITIALIZING", value |-> TRUE]),
           [type |-> "LOAD_HISTORY", messages |-> <<>>])
  /\ lastStep' = NoStep
  /\ turnDeltas' = Mixed
  /\ newChatPc' = "create"
  /\ newChats' = newChats + 1
  /\ createCalls' = createCalls + 1
  /\ UNCHANGED <<crashed, initPc, cancelled, nextUuid, nextSid, fetchCalls,
                 evCount>>
  /\ UNCHANGED <<script, sse, del>>

\* createSession of handleNewChat resolved (ok) or rejected.
handleNewChatReturn(ok) ==
  /\ ~crashed
  /\ newChatPc = "create"
  /\ newChatPc' = "idle"
  /\ IF ok
     THEN /\ storedId' = nextSid
          /\ nextSid' = nextSid + 1
          /\ state' =
               reducer(reducer(state,
                   [type |-> "SET_SESSION_ID", sessionId |-> nextSid]),
                   [type |-> "SET_INITIALIZING", value |-> FALSE])
     ELSE /\ state' =
               reducer(state, [type |-> "SET_INITIALIZING", value |-> FALSE])
          /\ UNCHANGED <<storedId, nextSid>>
  /\ UNCHANGED <<crashed, abortRef, streams, initPc, cancelled, newChats,
                 nextUuid, createCalls, fetchCalls, evCount, lastStep, turnDeltas>>
  /\ UNCHANGED <<script, sse, del>>

\* --------------------------------------------------- streamSSE / for await
\* fetch resolved with res.ok: the read loop starts.
StreamResponseOk(k) ==
  /\ ~crashed
  /\ streams[k].phase = "connecting"
  /\ streams' = [streams EXCEPT ![k].phase = "reading"]
  /\ UNCHANGED <<state, crashed, storedId, abortRef, initPc, cancelled,
                 newChatPc, newChats, nextUuid, nextSid, createCalls,
                 fetchCalls, evCount, lastStep, turnDeltas>>
  /\ UNCHANGED <<script, sse, del>>

\* fetch resolved with !res.ok: one error event is yielded, the generator
\* returns, the loop ends and DONE is dispatched; finally clears abortRef.
StreamHttpError(k, message) ==
  /\ ~crashed
  /\ streams[k].phase = "connecting"
  /\ LET actions == << handleSSEEvent([type |-> "error", message |-> message]),
                       [type |-> "DONE"] >>
     IN StreamDispatch(actions, k, <<"event", "close">>)
  /\ streams' = [streams EXCEPT ![k].phase = "closed"]
  /\ abortRef' = Null
  /\ UNCHANGED <<storedId, initPc, cancelled, newChatPc, newChats, nextUuid,
                 nextSid, createCalls, fetchCalls, evCount>>
  /\ UNCHANGED <<script, sse, del>>

\* One frame decoded in the read loop and handed to handleSSEEvent.
StreamEvent(k, event) ==
  /\ ~crashed
  /\ streams[k].phase = "reading"
  /\ evCount' = evCount + 1
  /\ LET actions == << handleSSEEvent(event) >>
     IN StreamDispatch(actions, k, <<"event">>)
  /\ UNCHANGED <<storedId, abortRef, streams, initPc, cancelled, newChatPc,
                 newChats, nextUuid, nextSid, createCalls, fetchCalls>>
  /\ UNCHANGED <<script, sse, del>>

\* A close with no DONE after the loop.
StreamClose_noDone(k, residual) ==
  /\ ~crashed
  /\ streams[k].phase = "reading"
  /\ evCount' = evCount + Len(residual)
  /\ LET actions == [i \in DOMAIN residual |-> handleSSEEvent(residual[i])]
         via == [i \in DOMAIN residual |-> "event"]
     IN StreamDispatch(actions, k, via)
  /\ streams' = [streams EXCEPT ![k].phase = "closed"]
  /\ abortRef' = Null
  /\ UNCHANGED <<storedId, initPc, cancelled, newChatPc, newChats, nextUuid,
                 nextSid, createCalls, fetchCalls>>
  /\ UNCHANGED <<script, sse, del>>

\* reader.read() reported done: the residual buffer is decoded (residual is
\* the frame it holds, or <<>> when it holds none), the generator returns,
\* DONE is dispatched after the loop and finally clears abortRef.
StreamClose(k, residual) ==
  /\ ~crashed
  /\ streams[k].phase = "reading"
  /\ evCount' = evCount + Len(residual)
  /\ LET actions == [i \in DOMAIN residual |-> handleSSEEvent(residual[i])]
                      \o << [type |-> "DONE"] >>
         via == [i \in DOMAIN residual |-> "event"] \o << "close" >>
     IN StreamDispatch(actions, k, via)
  /\ streams' = [streams EXCEPT ![k].phase = "closed"]
  /\ abortRef' = Null
  /\ UNCHANGED <<storedId, initPc, cancelled, newChatPc, newChats, nextUuid,
                 nextSid, createCalls, fetchCalls>>
  /\ UNCHANGED <<script, sse, del>>

\* fetch or reader.read() rejected with an error other than AbortError:
\* catch dispatches ERROR with err.message and finally clears abortRef.
StreamFail(k, message) ==
  /\ ~crashed
  /\ IsOpen(k)
  /\ LET actions == << [type |-> "ERROR", message |-> message] >>
     IN StreamDispatch(actions, k, <<"catch">>)
  /\ streams' = [streams EXCEPT ![k].phase = "failed"]
  /\ abortRef' = Null
  /\ UNCHANGED <<storedId, initPc, cancelled, newChatPc, newChats, nextUuid,
                 nextSid, createCalls, fetchCalls, evCount>>
  /\ UNCHANGED <<script, sse, del>>

\* ------------------------------------------------------------------- Next
Residuals(events) == {<<>>} \cup {<<e>> : e \in events}

\* Sends, new conversations and decoded frames so far.
Ops == Len(streams) + newChats + evCount

Next ==
  \/ InitStart
  \/ \E data \in Histories : InitFetchActive(data)
  \/ \E rejected \in BOOLEAN : InitFetchOther(rejected)
  \/ \E ok \in BOOLEAN : InitCreateReturn(ok)
  \/ Teardown
  \/ \E content \in Prompts : Ops < MaxOps /\ handleSend(content)
  \/ Ops < MaxOps /\ handleNewChatStart
  \/ \E ok \in BOOLEAN : handleNewChatReturn(ok)
  \/ \E k \in DOMAIN streams : StreamResponseOk(k)
  \/ \E k \in DOMAIN streams, m \in HttpErrorTexts : StreamHttpError(k, m)
  \/ \E k \in DOMAIN streams, event \in CoordEvents :
        Ops < MaxOps /\ StreamEvent(k, event)
  \/ \E k \in DOMAIN streams, residual \in Residuals(CoordEvents) :
        Ops + Len(residual) <= MaxOps /\ StreamClose(k, residual)
  \/ \E k \in DOMAIN streams, m \in FaultTexts : StreamFail(k, m)

Spec == Init /\ [][Next]_vars

\* One turn fed by one stream, with every frame of SSEEvent: the runs of
\* Spec with a single send, no new conversation and no transport fault.
NextTurn ==
  \/ InitStart
  \/ \E data \in Histories : InitFetchActive(data)
  \/ \E rejected \in BOOLEAN : InitFetchOther(rejected)
  \/ \E ok \in BOOLEAN : InitCreateReturn(ok)
  \/ \E content \in Prompts : streams = <<>> /\ handleSend(content)
  \/ \E k \in DOMAIN streams : StreamResponseOk(k)
  \/ \E k \in DOMAIN streams, event \in SSEEvent :
        evCount < MaxTurnEvents /\ StreamEvent(k, event)
  \/ \E k \in DOMAIN streams, residual \in Residuals(SSEEvent) :
        evCount + Len(residual) <= MaxTurnEvents /\ StreamClose(k, residual)

SpecTurn == Init /\ [][NextTurn]_vars

\* Streams that outlive their turn: a fresh client, sends and new
\* conversations, and streams that carry text, a tool and done.
StaleEvents ==
  { [type |-> "delta", content |-> "a"],
    [type |-> "tool_start", tool |-> "build"],
    [type |-> "done"] }

InitStale ==
  /\ Init
  /\ storedId = Null

NextStale ==
  \/ InitStart
  \/ InitCreateReturn(TRUE)
  \/ \E content \in Prompts : Ops < MaxStaleOps /\ handleSend(content)
  \/ Ops < MaxStaleOps /\ handleNewChatStart
  \/ handleNewChatReturn(TRUE)
  \/ \E k \in DOMAIN streams : StreamResponseOk(k)
  \/ \E k \in DOMAIN streams, event \in StaleEvents :
        Ops < MaxStaleOps /\ StreamEvent(k, event)
  \/ \E k \in DOMAIN streams : StreamClose(k, <<>>)

SpecStale == InitStale /\ [][NextStale]_vars

\* ---------------------------------------------------- streamSSE: one call
\* streamSSE awaits fetch; the server's body is still on the wire.
InitSSE ==
  /\ InitChat
  /\ script = <<>>
  /\ del = NoDeletes
  /\ \E body \in Bodies :
       sse = [pc |-> "fetch", res |-> OkResponse, body |-> body, wire |-> body,
              buffer |-> "", out |-> <<>>]

\* fetch resolved, with no test of res.ok before the read loop.
SseResponse_noOkTest(res) ==
  /\ sse.pc = "fetch"
  /\ sse' = [sse EXCEPT !.res = res, !.pc = "read"]
  /\ UNCHANGED <<chatVars, script, del>>

\* fetch resolved.  !res.ok: one error event is yielded and the generator
\* returns; otherwise the read loop starts with an empty buffer.
SseResponse(res) ==
  /\ sse.pc = "fetch"
  /\ sse' = IF ~res.ok
            THEN [sse EXCEPT !.res = res,
                             !.out = << [type |-> "error",
                                         message |-> HttpErrorMessage(res)] >>,
                             !.pc = "returned"]
            ELSE [sse EXCEPT !.res = res, !.pc = "read"]
  /\ UNCHANGED <<chatVars, script, del>>

\* A read whose characters replace the buffer.
SseRead_noBuffer(n) ==
  /\ sse.pc = "read"
  /\ n \in 1..Len(sse.wire)
  /\ LET text == SubSeq(sse.wire, 1, n)
         lines == split(text)
     IN sse' = [sse EXCEPT
                  !.wire = SubSeq(sse.wire, n + 1, Len(sse.wire)),
                  !.buffer = Last(lines),
                  !.out = sse.out \o DecodeLines(SubSeq(lines, 1, Len(lines) - 1))]
  /\ UNCHANGED <<chatVars, script, del>>

\* reader.read() resolved with the next n characters: they join the buffer,
\* the buffer is split, its last piece is kept and the others are decoded.
SseRead(n) ==
  /\ sse.pc = "read"
  /\ n \in 1..Len(sse.wire)
  /\ LET text == sse.buffer \o SubSeq(sse.wire, 1, n)
         lines == split(text)
     IN sse' = [sse EXCEPT
                  !.wire = SubSeq(sse.wire, n + 1, Len(sse.wire)),
                  !.buffer = Last(lines),
                  !.out = sse.out \o DecodeLines(SubSeq(lines, 1, Len(lines) - 1))]
  /\ UNCHANGED <<chatVars, script, del>>

\* reader.read() reported done: the remaining buffer is decoded as one line
\* and the generator returns.
SseDone ==
  /\ sse.pc = "read"
  /\ sse.wire = ""
  /\ sse' = [sse EXCEPT !.out = sse.out \o DecodeLine(sse.buffer),
                        !.buffer = "",
                        !.pc = "returned"]
  /\ UNCHANGED <<chatVars, script, del>>

\* fetch or reader.read() rejected (network fault or abort): the generator
\* throws and yields nothing more.
SseReject ==
  /\ sse.pc \in {"fetch", "read"}
  /\ sse' = [sse EXCEPT !.pc = "threw"]
  /\ UNCHANGED <<chatVars, script, del>>

NextSSE ==
  \/ \E res \in Responses : SseResponse(res)
  \/ \E n \in 1..Len(sse.wire) : SseRead(n)
  \/ SseDone
  \/ SseReject

SpecSSE == InitSSE /\ [][NextSSE]_vars

\* ----------------------------------------------------- a scripted turn
\* The ways to merge two frame sequences, each keeping its own order.
RECURSIVE Interleavings(_, _)
Interleavings(a, b) ==
  IF a = <<>> THEN {b}
  ELSE IF b = <<>> THEN {a}
  ELSE {<< Head(a) >> \o s : s \in Interleavings(Tail(a), b)}
       \cup {<< Head(b) >> \o s : s \in Interleavings(a, Tail(b))}

\* The reply "Hello!" in three deltas around one use of the tool "search",
\* ended by done: the server may place the two tool frames anywhere.
HelloDeltas ==
  << [type |-> "delta", content |-> "Hel"],
     [type |-> "delta", content |-> "lo"],
     [type |-> "delta", content |-> "!"] >>

SearchFrames ==
  << [type |-> "tool_start", tool |-> "search"],
     [type |-> "tool_end", tool |-> "search"] >>

Scripts ==
  {s \o << [type |-> "done"] >> : s \in Interleavings(HelloDeltas, SearchFrames)}

InitScenario ==
  /\ InitChat
  /\ script \in Scripts
  /\ sse = NoCall
  /\ del = NoDeletes

\* One send whose stream delivers the frames of script in order; the last
\* frame may arrive without its newline and be decoded when the stream closes.
NextScenario ==
  \/ InitStart
  \/ \E data \in Histories : InitFetchActive(data)
  \/ \E rejected \in BOOLEAN : InitFetchOther(rejected)
  \/ \E ok \in BOOLEAN : InitCreateReturn(ok)
  \/ \E content \in Prompts : streams = <<>> /\ handleSend(content)
  \/ \E k \in DOMAIN streams : StreamResponseOk(k)
  \/ \E k \in DOMAIN streams :
        evCount < Len(script) /\ StreamEvent(k, script[evCount + 1])
  \/ \E k \in DOMAIN streams :
        /\ evCount + 1 >= Len(script)
        /\ StreamClose(k, SubSeq(script, evCount + 1, Len(script)))

SpecScenario == InitScenario /\ [][NextScenario]_vars

\* ------------------------------------------------ deleteSession: calls
InitDelete ==
  /\ InitChat
  /\ script = <<>>
  /\ sse = NoCall
  /\ \E held \in SUBSET SessionIds : del = [sessions |-> held, calls |-> <<>>]

\* One call of deleteSession(id) answered with status: a removal takes the
\* session off the service.
DeleteCall(id, status) ==
  /\ Len(del.calls) < MaxDeletes
  /\ status \in DeleteAnswers(id \in del.sessions)
  /\ del' = [sessions |-> IF ResOk(status) THEN del.sessions \ {id}
                          ELSE del.sessions,
             calls |-> Append(del.calls,
                              [id |-> id, status |-> status,
                               outcome |-> deleteSession(status)])]
  /\ UNCHANGED <<chatVars, script, sse>>

NextDelete ==
  \E id \in SessionIds, status \in {200, 204, 404, 403, 500} :
     DeleteCall(id, status)

SpecDelete == InitDelete /\ [][NextDelete]_vars

\* ================================================================ claims
RECURSIVE Concat(_)
Concat(strings) ==
  IF strings = <<>> THEN "" ELSE Head(strings) \o Concat(Tail(strings))

EndsWith(s, suffix) ==
  Len(s) >= Len(suffix) /\ SubSeq(s, Len(s) - Len(suffix) + 1, Len(s)) = suffix

RunningCount(activity, tool) ==
  Cardinality({j \in DOMAIN activity :
                 activity[j].tool = tool /\ activity[j].status = "running"})

ToolsOf(activity) == {activity[j].tool : j \in DOMAIN activity}

OpenStreams == {k \in DOMAIN streams : IsOpen(k)}

\* C1: while only delta events have reached the assistant turn begun last,
\* its content is the concatenation of their payloads in order of receipt.
C1_DeltaConcat ==
  (turnDeltas.pure /\ state.messages # <<>>)
    => Last(state.messages).content = Concat(turnDeltas.payloads)

C1_Witness ==
  /\ turnDeltas.pure
  /\ turnDeltas.payloads = <<"b", "a", "a">>
  /\ Last(state.messages).content = "baa"

\* C2: after any event, no turn holds two 'running' ledger entries with the
\* same tool name.
C2_OneRunningPerTool ==
  \A i \in DOMAIN state.messages :
    \A tool \in ToolsOf(state.messages[i].toolActivity) :
      RunningCount(state.messages[i].toolActivity, tool) <= 1

\* C3: status("tool:X") on a streaming turn whose ledger has a running entry
\* for X keeps the ledger's length and leaves that entry running.
C3_RepeatedStatusNoOp ==
  [][\A k \in DOMAIN streams, s \in StatusTexts :
       ( /\ StreamEvent(k, [type |-> "status", status |-> s])
         /\ StartsWithTool(s)
         /\ state.messages # <<>>
         /\ Last(state.messages).isStreaming
         /\ RunningCount(Last(state.messages).toolActivity, Slice5(s)) > 0 )
       => LET before == Last(state.messages).toolActivity
              after == Last(state'.messages).toolActivity
          IN /\ Len(after) = Len(before)
             /\ \A j \in DOMAIN before :
                  (before[j].tool = Slice5(s) /\ before[j].status = "running")
                    => after[j] = before[j]]_vars

\* C4: at most one stream opened by handleSend is open at any time.
C4_AtMostOneOpenStream == Cardinality(OpenStreams) <= 1

\* C5: a cancellation appends no error note to any turn, and a fault that is
\* not a cancellation appends the error note to a turn of the transcript.
C5_CancelSilentFaultNoted ==
  [][ /\ \A k \in DOMAIN streams, m \in FaultTexts :
           StreamFail(k, m)
             => \E i \in DOMAIN state.messages :
                   /\ i \in DOMAIN state'.messages
                   /\ state'.messages[i].content
                        = state.messages[i].content \o ErrorNote(m)
      /\ handleNewChatStart
           => \A i \in DOMAIN state'.messages, m \in FaultTexts \cup ErrorTexts :
                 ~EndsWith(state'.messages[i].content, ErrorNote(m)) ]_vars

\* C6: while 'start new conversation' awaits the new session, no stream
\* opened before it is still open, and the remembered id and the transcript
\* are already cleared.
C6_NewChatCancelsStreams ==
  newChatPc = "create"
    => /\ OpenStreams = {}
       /\ storedId = Null
       /\ state.messages = <<>>

\* C7: no step changes the content or the ledger of an assistant turn whose
\* streaming flag is already false.
C7_FinalizedTurnFrozen ==
  [][\A i \in DOMAIN state.messages :
       ( /\ state.messages[i].role = "assistant"
         /\ ~state.messages[i].isStreaming
         /\ i \in DOMAIN state'.messages
         /\ state'.messages[i].id = state.messages[i].id )
       => /\ state'.messages[i].content = state.messages[i].content
          /\ state'.messages[i].toolActivity = state.messages[i].toolActivity]_vars

\* C8: a user turn has its streaming flag false, and as long as it stays in
\* the transcript no step changes its role, content, ledger or flag.
C8_UserTurnFrozen ==
  /\ [](\A i \in DOMAIN state.messages :
          state.messages[i].role = "user" => ~state.messages[i].isStreaming)
  /\ [][\A i \in DOMAIN state.messages :
          state.messages[i].role = "user"
            => \A j \in DOMAIN state'.messages :
                 state'.messages[j].id = state.messages[i].id
                   => state'.messages[j] = state.messages[i]]_vars

C8_Witness ==
  /\ Len(state.messages) >= 3
  /\ state.messages[1].role = "user"
  /\ state.messages[Len(state.messages) - 1].role = "user"
  /\ lastStep.acts # <<>>
  /\ Last(state.messages).content # ""

\* C9: at most one turn of the transcript has its streaming flag true.
C9_OneStreamingTurn ==
  Cardinality({i \in DOMAIN state.messages : state.messages[i].isStreaming}) <= 1

C9_Witness ==
  /\ Len(state.messages) >= 4
  /\ Last(state.messages).isStreaming
  /\ Cardinality(OpenStreams) = 2

\* C10: after a message event the trailing turn's content is the payload, not
\* the old content followed by it, and none of its ledger entries is running.
C10_MessageReplaces ==
  ( /\ lastStep.acts # <<>>
    /\ lastStep.acts[1].action.type = "MESSAGE"
    /\ ~crashed
    /\ state.messages # <<>> )
  => /\ Last(state.messages).content = lastStep.acts[1].action.content
     /\ \A j \in DOMAIN Last(state.messages).toolActivity :
          Last(state.messages).toolActivity[j].status # "running"

C10_Witness ==
  /\ lastStep.acts # <<>>
  /\ lastStep.acts[1].action.type = "MESSAGE"
  /\ evCount >= 3
  /\ Last(state.messages).content = "m"
  /\ Len(Last(state.messages).toolActivity) >= 2

\* C11: in every state reached right after a DONE, applying DONE once more
\* yields the same transcript (content, ledger and streaming flag of every
\* turn) and the same global isStreaming flag.
C11_DoneIdempotent ==
  ( /\ lastStep.acts # <<>>
    /\ Last(lastStep.acts).action.type = "DONE"
    /\ ~crashed )
  => LET again == reducer(state, [type |-> "DONE"])
     IN /\ again.messages = state.messages
        /\ again.isStreaming = state.isStreaming

\* A done frame was handled, then the stream closed and DONE was dispatched
\* a second time on the same turn.
C11_Witness ==
  /\ lastStep.acts = << [action |-> [type |-> "DONE"], via |-> "close"] >>
  /\ evCount = 1
  /\ Len(streams) = 1
  /\ streams[1].phase = "closed"
  /\ Len(state.messages) >= 2
  /\ Last(state.messages).content = ""
  /\ ~Last(state.messages).isStreaming
  /\ ~state.isStreaming

AllErrorTexts == ErrorTexts \cup FaultTexts \cup HttpErrorTexts

\* The transcript `new` is `old` after an error with `message`, as C14 has it.
ErrorApplied(old, new, message) ==
  IF old # <<>> /\ Last(old).role = "assistant"
  THEN /\ Len(new) = Len(old)
       /\ \A i \in 1..(Len(old) - 1) : new[i] = old[i]
       /\ Last(new).content = Last(old).content \o ErrorNote(message)
       /\ ~Last(new).isStreaming
       /\ Last(new).id = Last(old).id
       /\ Last(new).role = Last(old).role
       /\ Last(new).toolActivity = Last(old).toolActivity
  ELSE new = old

\* C14: an error applied when the trailing turn is an assistant turn gives it
\* the content "old content followed by the error note" and a false streaming
\* flag; an error applied to an empty transcript or to a trailing user turn
\* leaves every turn unchanged.  Stated of the reducer in every reachable
\* state and of every step that dispatches ERROR.
C14_ErrorAppendsNote ==
  /\ [](\A m \in AllErrorTexts :
          ErrorApplied(state.messages,
                       reducer(state, [type |-> "ERROR", message |-> m]).messages,
                       m))
  /\ [][ /\ \A k \in DOMAIN streams, m \in ErrorTexts :
              StreamEvent(k, [type |-> "error", message |-> m])
                => ErrorApplied(state.messages, state'.messages, m)
         /\ \A k \in DOMAIN streams, m \in FaultTexts :
              StreamFail(k, m)
                => ErrorApplied(state.messages, state'.messages, m) ]_vars

\* An error frame reached a turn that already held the partial content "a".
C14_Witness ==
  /\ lastStep.acts =
       << [action |-> [type |-> "ERROR", message |-> "boom"], via |-> "event"] >>
  /\ state.messages # <<>>
  /\ Last(state.messages).role = "assistant"
  /\ Last(state.messages).content = "a" \o ErrorNote("boom")
  /\ ~Last(state.messages).isStreaming

OldIds == RememberedIds \ {Null}

\* C16: when getSession of the remembered id rejects or resolves with a
\* status other than "active", init discards the remembered id and calls
\* createSession exactly once; when that call resolves, the new id is
\* remembered and adopted and the transcript is empty (so it holds no error
\* note); the old id is never adopted.
C16_FallbackCreates ==
  /\ [][((\E rejected \in BOOLEAN : InitFetchOther(rejected)) /\ ~cancelled)
          => /\ storedId \in OldIds
             /\ storedId' = Null
             /\ createCalls = 0
             /\ createCalls' = 1
             /\ state' = state]_vars
  /\ [][(InitCreateReturn(TRUE) /\ ~cancelled /\ fetchCalls = 1)
          => /\ createCalls' = 1
             /\ nextSid \notin OldIds
             /\ storedId' = nextSid
             /\ state'.sessionId = nextSid
             /\ state'.messages = <<>>
             /\ ~state'.isInitializing]_vars
  /\ []((fetchCalls = 1 /\ createCalls >= 1 /\ newChats = 0 /\ ~cancelled)
          => /\ state.sessionId \notin OldIds
             /\ storedId \notin OldIds)
  /\ []((fetchCalls = 1 /\ initPc = "create" /\ ~cancelled)
          => /\ storedId = Null
             /\ state.sessionId = Null
             /\ state.messages = <<>>)

\* init fell back from the remembered session to a created one.
C16_Witness ==
  /\ initPc = "done"
  /\ ~cancelled
  /\ fetchCalls = 1
  /\ createCalls = 1
  /\ storedId = 2
  /\ state.sessionId = 2
  /\ state.messages = <<>>
  /\ ~state.isInitializing

\* C17: a client with no remembered id calls createSession exactly once in
\* init and never calls getSession; when init completes the transcript is
\* empty and the initializing flag is false, and the id createSession
\* returned is both state.sessionId and the remembered id.
C17_FreshClientCreates ==
  /\ [][InitStart => IF storedId = Null
                     THEN createCalls' = 1 /\ fetchCalls' = 0
                     ELSE createCalls' = 0 /\ fetchCalls' = 1]_vars
  /\ [][fetchCalls' # fetchCalls => (InitStart /\ storedId # Null)]_vars
  /\ []((initPc # "start" /\ fetchCalls = 0 /\ newChats = 0) => createCalls = 1)
  /\ [][\A ok \in BOOLEAN :
          (InitCreateReturn(ok) /\ ~cancelled /\ fetchCalls = 0)
          => /\ createCalls' = 1
             /\ fetchCalls' = 0
             /\ state'.messages = <<>>
             /\ ~state'.isInitializing
             /\ ok => /\ state'.sessionId = nextSid
                      /\ storedId' = nextSid]_vars

\* init of a fresh client has completed with a created session.
C17_Witness ==
  /\ initPc = "done"
  /\ ~cancelled
  /\ fetchCalls = 0
  /\ createCalls = 1
  /\ newChats = 0
  /\ streams = <<>>
  /\ state.messages = <<>>
  /\ ~state.isInitializing
  /\ state.sessionId = 2
  /\ storedId = 2

\* C18: when createSession rejects, in init or in handleNewChat, the
\* initializing flag is still true after the failed call.
C18_FailedCreateStaysInitializing ==
  [][((InitCreateReturn(FALSE) /\ ~cancelled) \/ handleNewChatReturn(FALSE))
       => state'.isInitializing]_vars

\* C19: no USER_SEND is applied while the initializing flag is true, and the
\* flag is true from the initial state until init completes and from the
\* start of handleNewChat until it completes.
C19_NoSendWhileInitializing ==
  /\ []((initPc \in {"start", "fetch", "create"} \/ newChatPc = "create")
          => state.isInitializing)
  /\ [][(\E content \in Prompts : handleSend(content))
          => ~state.isInitializing]_vars
  /\ [][Len(streams') > Len(streams) => ~state.isInitializing]_vars

\* A send accepted after a new conversation completed.
C19_Witness ==
  /\ newChats = 1
  /\ newChatPc = "idle"
  /\ initPc = "done"
  /\ Len(streams) = 1
  /\ Len(state.messages) = 2
  /\ state.messages[1].role = "user"
  /\ ~state.isInitializing

\* C20: when fetch resolves with a non-success status, streamSSE yields
\* exactly one event, an error whose message carries the status, and then
\* ends: nothing of the response body is read, decoded or yielded.
C20_NonOkYieldsOneError ==
  /\ [](~sse.res.ok
          => /\ sse.pc = "returned"
             /\ Len(sse.out) = 1
             /\ sse.out[1].type = "error"
             /\ sse.res.status = "500"
                  => sse.out[1].message = "HTTP 500: Internal Server Error"
             /\ sse.res.status = "404"
                  => sse.out[1].message = "HTTP 404: Not Found"
             /\ sse.wire = sse.body
             /\ sse.buffer = "")
  /\ [][~sse.res.ok => sse' = sse]_vars

\* A 404 whose body holds two well-formed frames.
C20_Witness ==
  /\ sse.pc = "returned"
  /\ ~sse.res.ok
  /\ sse.res.status = "404"
  /\ sse.out = << [type |-> "error", message |-> "HTTP 404: Not Found"] >>
  /\ sse.body = "data: " \o JsonDelta \o "\n" \o "data: " \o JsonDone \o "\n"

\* The frames of the scenario of C13, after "begin assistant turn".
C13_Script ==
  << [type |-> "delta", content |-> "Hel"],
     [type |-> "delta", content |-> "lo"],
     [type |-> "tool_start", tool |-> "search"],
     [type |-> "delta", content |-> "!"],
     [type |-> "tool_end", tool |-> "search"],
     [type |-> "done"] >>

\* C13: [begin, delta("Hel"), delta("lo"), tool_start("search"), delta("!"),
\* tool_end("search"), done] ends with a trailing turn whose content is
\* "Hello!", whose ledger is [{search, done}] and whose streaming flag is
\* false, and so does every other placement of the two tool frames among the
\* deltas; a tool frame leaves the content as it is and a delta leaves the
\* ledger as it is.
C13_HelloScenario ==
  /\ C13_Script \in Scripts
  /\ []((evCount = Len(script) /\ evCount > 0)
          => /\ Last(state.messages).role = "assistant"
             /\ Last(state.messages).content = "Hello!"
             /\ Last(state.messages).toolActivity =
                  << [tool |-> "search", status |-> "done"] >>
             /\ ~Last(state.messages).isStreaming
             /\ ~state.isStreaming)
  /\ [][\A k \in DOMAIN streams :
          (evCount < Len(script) /\ StreamEvent(k, script[evCount + 1]))
          => LET frame == script[evCount + 1]
                 old == Last(state.messages)
                 new == Last(state'.messages)
             IN /\ frame.type \in {"tool_start", "tool_end"}
                     => new.content = old.content
                /\ frame.type = "delta"
                     => /\ new.toolActivity = old.toolActivity
                        /\ new.content = old.content \o frame.content]_vars

C13_Witness ==
  /\ script = C13_Script
  /\ evCount = 6
  /\ Len(streams) = 1
  /\ streams[1].phase = "closed"
  /\ Last(state.messages).content = "Hello!"
  /\ Last(state.messages).toolActivity = << [tool |-> "search", status |-> "done"] >>
  /\ ~Last(state.messages).isStreaming

\* The events of the well-formed frames among lines, in order.
RECURSIVE EventsOf(_)
EventsOf(lines) ==
  IF lines = <<>> THEN <<>> ELSE Head(lines).event \o EventsOf(Tail(lines))

IsPrefix(s, t) == Len(s) <= Len(t) /\ SubSeq(t, 1, Len(s)) = s

\* C21: a line without the "data: " prefix, with an empty payload or with a
\* payload that is not JSON yields no event and does not end the stream: no
\* read ends the generator or takes back an event, and when the stream has
\* closed the events yielded are those of the well-formed frames, in order.
C21_MalformedSkipped ==
  /\ [](\A w \in Written :
          (sse.res.ok /\ sse.pc = "returned" /\ sse.body = BodyOf(w))
            => sse.out = EventsOf(w.lines))
  /\ [](\A w \in Written :
          (sse.pc = "read" /\ sse.body = BodyOf(w))
            => IsPrefix(sse.out, EventsOf(w.lines)))
  /\ [][(\E n \in 1..Len(sse.wire) : SseRead(n))
          => /\ sse'.pc = "read"
             /\ IsPrefix(sse.out, sse'.out)]_vars

\* A delta, the three kinds of malformed line and a done were read to the end.
C21_Witness ==
  /\ sse.pc = "returned"
  /\ sse.res.ok
  /\ sse.body = "data: " \o JsonDelta \o "\n: ping\ndata: \ndata: {oops\ndata: "
                  \o JsonDone \o "\n"
  /\ sse.out = << [type |-> "delta", content |-> "a"], [type |-> "done"] >>

\* What streamSSE yields when the whole body arrives in one read.
OneRead(body) ==
  LET lines == split(body)
  IN DecodeLines(SubSeq(lines, 1, Len(lines) - 1)) \o DecodeLine(Last(lines))

\* C28: however the body is cut into reads (inside a frame too, and with a
\* last frame that has no newline), streamSSE has yielded, when the stream
\* closes, the events it yields when the body arrives in one read, which are
\* the events of the frames written, each once and in order.
C28_ReadSplitIndependent ==
  (sse.res.ok /\ sse.pc = "returned")
    => /\ sse.out = OneRead(sse.body)
       /\ \A w \in Written :
            sse.body = BodyOf(w) => OneRead(sse.body) = EventsOf(w.lines)

\* A read ended inside the last frame, which has no newline: the delta is
\* yielded and the piece of the done frame waits in the buffer.
C28_Witness ==
  /\ sse.pc = "read"
  /\ sse.body = "data: " \o JsonDelta \o "\n\n" \o "data: " \o JsonDone
  /\ sse.buffer = "data: {\"type\":\"do"
  /\ sse.out = << [type |-> "delta", content |-> "a"] >>

\* C22: deleteSession returns without error when the service answers with a
\* success status or with 404 and throws for every other status, so two
\* deletes of one session, answered with a removal and then with 404, both
\* succeed.
C22_DeleteIdempotent ==
  /\ \A i \in DOMAIN del.calls :
       LET call == del.calls[i]
       IN /\ call.status \in {200, 204, 404} => call.outcome = "returned"
          /\ call.status \in {403, 500} => call.outcome = "threw"
  /\ \A i, j \in DOMAIN del.calls :
       ( /\ i < j
         /\ del.calls[i].id = del.calls[j].id
         /\ del.calls[i].status \in {200, 204}
         /\ del.calls[j].status \notin {403, 500} )
       => /\ del.calls[j].status = 404
          /\ del.calls[i].outcome = "returned"
          /\ del.calls[j].outcome = "returned"

\* Session 1 deleted twice: removed, then already absent.
C22_Witness ==
  del.calls = << [id |-> 1, status |-> 204, outcome |-> "returned"],
                 [id |-> 1, status |-> 404, outcome |-> "returned"] >>

\* C23: a step that changes a turn of the transcript is a step of the stream
\* opened by the send that began that turn: no event of a stream is applied
\* to a turn begun by another send or loaded from history.
C23_EventsReachOwnTurn ==
  [][\A i \in DOMAIN state.messages :
       ( /\ i \in DOMAIN state'.messages
         /\ state'.messages[i].id = state.messages[i].id
         /\ state'.messages[i] # state.messages[i] )
       => /\ lastStep'.stream # Null
          /\ streams[lastStep'.stream].turn = state.messages[i].id]_vars

\* C24: once the mount effect is torn down (cancelled set), init dispatches
\* no action, neither clears nor stores the remembered id and calls neither
\* getSession nor createSession, whatever its pending await settles with.
C24_TornDownInitInert ==
  [][cancelled
       => /\ state' = state
          /\ storedId' = storedId
          /\ createCalls' = createCalls
          /\ fetchCalls' = fetchCalls]_vars

\* C25: no streaming event applied in a reachable state raises an error.
C25_EventsNeverThrow == ~crashed

\* C26: tool_end(name) turns the most recent running entry with that name to
\* done and leaves every other entry of the trailing turn's ledger as it
\* was; with no running entry of that name the ledger is unchanged.
C26_ToolEndMostRecent ==
  [][\A k \in DOMAIN streams, t \in ToolNames :
       (StreamEvent(k, [type |-> "tool_end", tool |-> t]) /\ state.messages # <<>>)
       => LET old == Last(state.messages).toolActivity
              new == Last(state'.messages).toolActivity
              running == {j \in DOMAIN old :
                            old[j].tool = t /\ old[j].status = "running"}
          IN IF running = {} THEN new = old
             ELSE LET latest == CHOOSE j \in running : \A l \in running : l <= j
                  IN /\ Len(new) = Len(old)
                     /\ new[latest] = [tool |-> t, status |-> "done"]
                     /\ \A j \in DOMAIN old : j # latest => new[j] = old[j]]_vars

\* st2 differs from st1 at most in the trailing turn and the isStreaming flag.
OnlyTrailingTurnTouched(st1, st2) ==
  /\ Len(st2.messages) = Len(st1.messages)
  /\ \A i \in 1..(Len(st1.messages) - 1) : st2.messages[i] = st1.messages[i]
  /\ st2.sessionId = st1.sessionId
  /\ st2.isInitializing = st1.isInitializing

\* C27: every streaming-event action leaves the number of turns, every turn
\* but the trailing one, sessionId and isInitializing unchanged; the
\* transcript grows only by a send (USER_SEND, ASSISTANT_START) and is
\* replaced only by LOAD_HISTORY.  Stated of the reducer for every frame in
\* every reachable state, and of every step.
C27_EventsTouchOnlyTrailingTurn ==
  /\ [](\A event \in SSEEvent :
          ~ReducerThrows(state, handleSSEEvent(event))
            => OnlyTrailingTurnTouched(state,
                                       reducer(state, handleSSEEvent(event))))
  /\ [][(\E k \in DOMAIN streams :
           \/ \E event \in CoordEvents : StreamEvent(k, event)
           \/ \E residual \in Residuals(CoordEvents) : StreamClose(k, residual)
           \/ \E m \in FaultTexts : StreamFail(k, m)
           \/ \E m \in HttpErrorTexts : StreamHttpError(k, m))
          => OnlyTrailingTurnTouched(state, state')]_vars
  /\ [][Len(state'.messages) > Len(state.messages)
          => \/ \E content \in Prompts : handleSend(content)
             \/ \E data \in Histories : InitFetchActive(data)]_vars
  /\ [][Len(state'.messages) < Len(state.messages) => handleNewChatStart]_vars

\* A frame reached the second assistant turn; the first keeps its content.
C27_Witness ==
  /\ Len(state.messages) = 4
  /\ lastStep.acts =
       << [action |-> [type |-> "DELTA", content |-> "a"], via |-> "event"] >>
  /\ state.messages[2].content = ""
  /\ Last(state.messages).content = "a"

\* C29: once abort() has fired for a stream, no step of that stream follows:
\* no frame is applied, the residual buffer is not decoded, and neither DONE
\* nor ERROR is dispatched for it.
C29_CancelledStreamSilent ==
  [][\A k \in DOMAIN streams :
       streams[k].phase = "cancelled"
       => /\ streams'[k] = streams[k]
          /\ ~(\E event \in CoordEvents : StreamEvent(k, event))
          /\ ~(\E residual \in Residuals(CoordEvents) : StreamClose(k, residual))
          /\ ~(\E m \in FaultTexts : StreamFail(k, m))
          /\ ~(\E m \in HttpErrorTexts : StreamHttpError(k, m))
          /\ ~StreamResponseOk(k)]_vars

\* Stream 1 was aborted by "New chat" after a frame; a later send runs.
C29_Witness ==
  /\ Len(streams) = 2
  /\ streams[1].phase = "cancelled"
  /\ evCount >= 1
  /\ newChats = 1
  /\ Len(state.messages) = 2

\* The turns of the transcript that stream k's send began.
TurnsOf(k, messages) ==
  {i \in DOMAIN messages : messages[i].id = streams[k].turn}

\* C30: when the stream of an assistant turn of the transcript closes or
\* fails with a fault that is not an abort, done frame or not, that turn and
\* the trailing turn have their streaming flag false afterwards and the
\* global isStreaming flag is false, so that input is accepted again as soon
\* as no initialization is pending; a turn whose stream has ended stays
\* finalized.
C30_StreamEndFinalizes ==
  /\ [][\A k \in DOMAIN streams :
          ( /\ \/ \E residual \in Residuals(CoordEvents) : StreamClose(k, residual)
               \/ \E m \in FaultTexts : StreamFail(k, m)
               \/ \E m \in HttpErrorTexts : StreamHttpError(k, m)
            /\ TurnsOf(k, state.messages) # {} )
          => /\ \A i \in TurnsOf(k, state.messages) :
                  /\ i \in DOMAIN state'.messages
                  /\ ~state'.messages[i].isStreaming
             /\ ~Last(state'.messages).isStreaming
             /\ ~state'.isStreaming
             /\ ~crashed'
             /\ ~state'.isInitializing => InputAccepted']_vars
  /\ [](\A k \in DOMAIN streams :
          streams[k].phase \in {"closed", "failed"}
            => \A i \in TurnsOf(k, state.messages) : ~state.messages[i].isStreaming)

\* The stream closed after a delta and no done frame: DONE came from the
\* end of the loop.
C30_Witness ==
  /\ Len(streams) = 1
  /\ streams[1].phase = "closed"
  /\ evCount = 1
  /\ lastStep.acts = << [action |-> [type |-> "DONE"], via |-> "close"] >>
  /\ Last(state.messages).content = "a"
  /\ ~Last(state.messages).isStreaming
  /\ ~state.isStreaming

\* The ledger new keeps the entries of old in place, with the same tools and
\* with no status moved from done back to running; it may add entries at
\* the end.
LedgerExtends(old, new) ==
  /\ Len(old) <= Len(new)
  /\ \A j \in DOMAIN old :
       /\ new[j].tool = old[j].tool
       /\ old[j].status = "done" => new[j].status = "done"

\* C31: for every event the trailing turn's ledger before it is, entry by
\* entry, a prefix of the ledger after it as to tool names; no entry is
\* removed or reordered and none goes from done back to running.  Stated of
\* the reducer for every frame in every reachable state, and of every step
\* that keeps the trailing turn.
C31_LedgerGrowsAtEnd ==
  /\ [](\A event \in SSEEvent :
          (state.messages # <<>> /\ ~ReducerThrows(state, handleSSEEvent(event)))
            => LedgerExtends(
                 Last(state.messages).toolActivity,
                 Last(reducer(state, handleSSEEvent(event)).messages).toolActivity))
  /\ [][( /\ state.messages # <<>>
           /\ state'.messages # <<>>
           /\ Last(state'.messages).id = Last(state.messages).id )
          => LedgerExtends(Last(state.messages).toolActivity,
                           Last(state'.messages).toolActivity)]_vars

\* Three tool frames and a status: the ledger kept its order while it grew.
C31_Witness ==
  /\ evCount = 4
  /\ Last(state.messages).toolActivity =
       << [tool |-> "build", status |-> "done"],
          [tool |-> "test", status |-> "done"],
          [tool |-> "build", status |-> "running"] >>

\* C32: whenever the coordinator is not initializing (the flag is false and
\* neither init nor handleNewChat is in progress) state.sessionId equals the
\* id remembered in session storage, both absent or both the same id; and
\* when handleNewChat completes, the id that later sends use is not the id
\* of the session that was reset.
C32_SessionIdAgrees ==
  /\ []((~state.isInitializing /\ initPc = "done" /\ newChatPc = "idle")
          => state.sessionId = storedId)
  /\ [][((\E ok \in BOOLEAN : handleNewChatReturn(ok))
           /\ state.sessionId # Null)
          => state'.sessionId # state.sessionId]_vars

\* C33: in every reachable state in which the global isStreaming flag is
\* false, no turn of the transcript has its streaming flag true.
C33_FlagsAgree ==
  ~state.isStreaming
    => \A i \in DOMAIN state.messages : ~state.messages[i].isStreaming

\* Two turns were finalized, the first by a done frame or a close and the
\* second by an error, and the input is enabled again.
C33_Witness ==
  /\ ~state.isStreaming
  /\ ~state.isInitializing
  /\ Len(state.messages) >= 4
  /\ \E m \in AllErrorTexts :
       EndsWith(Last(state.messages).content, ErrorNote(m))
  /\ \A i \in DOMAIN state.messages : ~state.messages[i].isStreaming

\* C34: every turn whose streaming flag is false has no ledger entry with
\* status "running".
C34_FinalizedHasNoRunningTool ==
  \A i \in DOMAIN state.messages :
    ~state.messages[i].isStreaming
      => \A j \in DOMAIN state.messages[i].toolActivity :
           state.messages[i].toolActivity[j].status # "running"

====
